---- MODULE Spec2Model ----
(***************************************************************************)
(* Zippify: the parameter store (param.rs), the block pipeline             *)
(* (process.rs), the editor's writes to the store and its lifecycle        *)
(* (ui.rs), and the plugin shell with its own process (lib.rs).            *)
(*                                                                         *)
(* Numbers.  An f32 is modelled as a fixed-point number: the integer n     *)
(* stands for n / Unit, and every product and quotient is rounded to the   *)
(* nearest representable value, as an f32 operation rounds its result.     *)
(***************************************************************************)
EXTENDS Integers, Sequences, FiniteSets, TLC

Unit == 10 ^ 3

Abs(x) == IF x < 0 THEN -x ELSE x

\* a / b rounded to the nearest integer (b > 0)
RoundDiv(a, b) == IF a >= 0 THEN (2 * a + b) \div (2 * b)
                            ELSE -((2 * (-a) + b) \div (2 * b))

\* a / b truncated toward zero (b > 0)
TruncDiv(a, b) == IF a >= 0 THEN a \div b ELSE -((-a) \div b)

\* the values of an f32 that are not numbers of the grid: the two infinities
\* and NaN.  Every finite value of the model is far below PosInf.
PosInf == 10 ^ 8
NegInf == -PosInf
NaN    == 2 * PosInf

IsFinite(x) == NegInf < x /\ x < PosInf

Sign(x) == IF x < 0 THEN -1 ELSE 1

\* f32 multiplication, division and addition (IEEE 754: 0 * inf, 0 / 0,
\* inf / inf and inf - inf are NaN, x / 0 is an infinity)
FMul(a, b) ==
    IF a = NaN \/ b = NaN THEN NaN
    ELSE IF ~IsFinite(a) \/ ~IsFinite(b)
         THEN IF a = 0 \/ b = 0 THEN NaN ELSE Sign(a) * Sign(b) * PosInf
         ELSE RoundDiv(a * b, Unit)

FDiv(a, b) ==
    IF a = NaN \/ b = NaN THEN NaN
    ELSE IF ~IsFinite(a)
         THEN IF ~IsFinite(b) THEN NaN ELSE Sign(a) * Sign(b) * PosInf
         ELSE IF ~IsFinite(b) THEN 0
         ELSE IF b = 0 THEN IF a = 0 THEN NaN ELSE Sign(a) * PosInf
         ELSE IF b > 0 THEN RoundDiv(a * Unit, b) ELSE -RoundDiv(a * Unit, -b)

FAdd(a, b) ==
    IF a = NaN \/ b = NaN THEN NaN
    ELSE IF ~IsFinite(a) THEN IF ~IsFinite(b) /\ a # b THEN NaN ELSE a
    ELSE IF ~IsFinite(b) THEN b
    ELSE a + b

(***************************************************************************)
(* util.rs                                                                 *)
(***************************************************************************)
\* to_linear(db) = 10^(db/20); the argument is in hundredths of a dB and the
\* table holds the values of the four call sites
to_linear(cdb) ==
    CASE cdb = -1200 -> 251
      [] cdb = 0     -> 1000
      [] cdb = 2400  -> 15849
      [] cdb = 2453  -> 16846

(***************************************************************************)
(* param.rs: EffectParams                                                  *)
(***************************************************************************)
PARAM_NUM == 4

Cells == {"clamp_threshold", "lose_precision", "mix", "gain"}

\* impl Default for EffectParams
DefaultParams ==
    [clamp_threshold |-> to_linear(-1200),
     lose_precision  |-> Unit,
     mix             |-> Unit,
     gain            |-> to_linear(0)]

\* get_parameter with the gain cell returned without its offset removed
get_parameter_no_offset(p, index) ==
    CASE index = 0 -> p.clamp_threshold
      [] index = 1 -> p.lose_precision
      [] index = 2 -> p.mix
      [] index = 3 -> FDiv(p.gain, to_linear(2400))
      [] OTHER     -> 0

\* PluginParameters::get_parameter
get_parameter(p, index) ==
    CASE index = 0 -> p.clamp_threshold
      [] index = 1 -> p.lose_precision
      [] index = 2 -> p.mix
      [] index = 3 -> FDiv(p.gain - Unit, to_linear(2400))
      [] OTHER     -> 0

\* set_parameter with index 2 storing into the cell of index 1
set_parameter_wrong_cell(p, index, val) ==
    CASE index = 0 -> [p EXCEPT !.clamp_threshold = val]
      [] index = 1 -> [p EXCEPT !.lose_precision = val]
      [] index = 2 -> [p EXCEPT !.lose_precision = val]
      [] index = 3 -> [p EXCEPT !.gain = FMul(val, to_linear(2400)) + Unit]
      [] OTHER     -> p

\* set_parameter with every index from 3 on taken for the gain
set_parameter_catch_all(p, index, val) ==
    CASE index = 0 -> [p EXCEPT !.clamp_threshold = val]
      [] index = 1 -> [p EXCEPT !.lose_precision = val]
      [] index = 2 -> [p EXCEPT !.mix = val]
      [] index >= 3 -> [p EXCEPT !.gain = FMul(val, to_linear(2400)) + Unit]
      [] OTHER     -> p

\* set_parameter with the gain stored without the offset of 1.0
set_parameter_no_offset(p, index, val) ==
    CASE index = 0 -> [p EXCEPT !.clamp_threshold = val]
      [] index = 1 -> [p EXCEPT !.lose_precision = val]
      [] index = 2 -> [p EXCEPT !.mix = val]
      [] index = 3 -> [p EXCEPT !.gain = FMul(val, to_linear(2400))]
      [] OTHER     -> p

\* PluginParameters::set_parameter: the store after the call
set_parameter(p, index, val) ==
    CASE index = 0 -> [p EXCEPT !.clamp_threshold = val]
      [] index = 1 -> [p EXCEPT !.lose_precision = val]
      [] index = 2 -> [p EXCEPT !.mix = val]
      [] index = 3 -> [p EXCEPT !.gain = FMul(val, to_linear(2400)) + Unit]
      [] OTHER     -> p

\* PluginParameters::get_parameter_text.  A text is a sequence: the empty
\* string is <<>>, a formatted number is its format string, the conversion
\* applied (to_db or none) and the number formatted
get_parameter_text(p, index) ==
    CASE index = 0 -> <<"{:.2} dB", "to_db", p.clamp_threshold>>
      [] index = 1 -> <<"{:.2}", "", p.lose_precision>>
      [] index = 2 -> <<"{:.2}", "", p.mix>>
      [] index = 3 -> <<"{:.2} dB", "to_db", p.gain>>
      [] OTHER     -> <<>>

\* PluginParameters::get_parameter_name
get_parameter_name(index) ==
    CASE index = 0 -> "Chocolate!"
      [] index = 1 -> "8-bitify"
      [] index = 2 -> "Mix"
      [] index = 3 -> "Gain"
      [] OTHER     -> ""

(***************************************************************************)
(* process.rs                                                              *)
(***************************************************************************)
\* 0.015848933, rounded up to the next representable value: for a
\* representable sample s, s < 0.015848933 exactly when s < 16/Unit
SILENT_THRESHOLD_DB == 16
SILENT_THRESHOLD_COUNT == 32

\* one channel loop of remove_silence, from sample i on with the counter
\* at `counter`
RECURSIVE RemoveSilenceFrom(_, _, _)
RemoveSilenceFrom(buf, i, counter) ==
    IF i > Len(buf) THEN buf
    ELSE IF buf[i] < SILENT_THRESHOLD_DB
         THEN IF counter + 1 > SILENT_THRESHOLD_COUNT
              THEN RemoveSilenceFrom([buf EXCEPT ![i] = 0], i + 1, counter + 1)
              ELSE RemoveSilenceFrom(buf, i + 1, counter + 1)
         ELSE RemoveSilenceFrom(buf, i + 1, counter)

\* remove_silence: both counters start at 0
\* remove_silence with one counter for both loops: the right channel's loop
\* goes on from the count the left channel's loop ended with
remove_silence_one_counter(out_l, out_r) ==
    <<RemoveSilenceFrom(out_l, 1, 0),
      RemoveSilenceFrom(out_r, 1,
          Cardinality({i \in DOMAIN out_l : out_l[i] < SILENT_THRESHOLD_DB}))>>

remove_silence(out_l, out_r) ==
    <<RemoveSilenceFrom(out_l, 1, 0), RemoveSilenceFrom(out_r, 1, 0)>>

\* a clamp that asserts min < max
ClampPanicsStrict(min, max) == ~(min < max)

\* f32::clamp(self, min, max); it asserts min <= max
ClampPanics(min, max) == ~(min <= max)

\* clamp that limits from above only
ClampUpperOnly(s, min, max) == IF s > max THEN max ELSE s

Clamp(s, min, max) == IF s < min THEN min ELSE IF s > max THEN max ELSE s

\* a clamp loop that limits the output buffer in place
ClampChannelInPlace(in, out, t) == [i \in 1..Len(out) |-> Clamp(out[i], -t, t)]

\* the clamp loop of one channel: out[index] = in[index].clamp(-t, t) for
\* every index of the input
ClampChannel(in, out, t) ==
    [i \in 1..Len(out) |-> IF i <= Len(in) THEN Clamp(in[i], -t, t) ELSE out[i]]

\* the low eight bits of k read as a two's-complement number
Wrap8(k) == ((k + 128) % 256) - 128

\* `x as i8` that keeps the low eight bits of the truncated value
CastI8Wrapping(x) == IF x = NaN THEN 0 ELSE Wrap8(TruncDiv(x, Unit))

\* `x as i8` of an f32: truncates toward zero and saturates; NaN gives 0
CastI8(x) ==
    LET k == TruncDiv(x, Unit)
    IN  IF x = NaN THEN 0
        ELSE IF k > 127 THEN 127 ELSE IF k < -128 THEN -128 ELSE k

\* one sample of the lose-precision loops
LosePrecisionSample(s) == FDiv(CastI8(FMul(s, 15 * Unit)) * Unit, 15 * Unit)

LosePrecisionChannel(out) == [i \in 1..Len(out) |-> LosePrecisionSample(out[i])]

\* mix with the two weights exchanged
MixSampleSwapped(out_s, in_s, m) == FAdd(FMul(out_s, Unit - m), FMul(m, in_s))

\* one sample of mix
MixSample(out_s, in_s, m) == FAdd(FMul(out_s, m), FMul(Unit - m, in_s))

\* one channel loop of mix: zip stops at the shorter slice
MixChannel(in, out, m) ==
    [i \in 1..Len(out) |-> IF i <= Len(in) THEN MixSample(out[i], in[i], m) ELSE out[i]]

\* mix
mix(in_l, in_r, out_l, out_r, m) ==
    <<MixChannel(in_l, out_l, m), MixChannel(in_r, out_r, m)>>

(***************************************************************************)
(* State                                                                   *)
(***************************************************************************)
VARIABLES
    params,        \* the four AtomicFloat cells of EffectParams
    written,       \* per cell: its default, or the value its last writer stored
    call,          \* the last call the host or the editor made
    pc,            \* where the audio thread is inside process
    in_buf_l, in_buf_r, out_buf_l, out_buf_r,   \* the block being processed
    clamp_range, lose_precision, mix_level,     \* the locals of process
    gidx,          \* the next sample of the gain loops (left channel first)
    reads,         \* per cell: the <<value read, value last written>> pairs
                   \* of the reads the current process call has made
    buffer,        \* the buffers of the running call as the host handed them in
    editor,        \* ui.rs: the fields is_open and window_handle of PluginEditor
    windows        \* ui.rs: the editor windows that exist on screen

vars == <<params, written, call, pc, in_buf_l, in_buf_r, out_buf_l, out_buf_r,
          clamp_range, lose_precision, mix_level, gidx, reads,
          buffer, editor, windows>>

shell   == <<buffer, editor, windows>>
store   == <<params, written>>
buffers == <<in_buf_l, in_buf_r, out_buf_l, out_buf_r>>
locals  == <<clamp_range, lose_precision, mix_level, gidx>>
audio   == <<pc, buffers, locals, reads>>

(***************************************************************************)
(* Inputs                                                                  *)
(***************************************************************************)
ShortLen == 2      \* length of the short blocks
MaxRun   == 40     \* the longest below-threshold run of the long blocks

Rep(v, n) == [i \in 1..n |-> v]
Neg(b)    == [i \in 1..Len(b) |-> -b[i]]
Alt(p, n) == [i \in 1..n |-> IF i % 2 = 1 THEN p[1] ELSE p[2]]

\* indices and normalized values the host passes; editor widget values
HostIdx         == -1..PARAM_NUM
HostVals        == {0, 500, 1000}
EditorClampVals == {v \in {1000} : 10 <= v /\ v <= 1000}
EditorMixVals   == {v \in {500} : 0 <= v /\ v <= 1000}
EditorGainVals  == {v \in {1000, 1995, to_linear(2453)} : 1000 <= v /\ v <= to_linear(2453)}

\* Option<WindowHandleNew>: None, or Some(the id of a window)
None       == 0
MaxWindows == 2
WindowIds  == 1..MaxWindows

\* blocks: the four channel buffers the host hands to one process call
Block(il, ir, ol, or) == [in_l |-> il, in_r |-> ir, out_l |-> ol, out_r |-> or]

ShortPairs == {<<500, -1000>>, <<1, 100>>, <<-1000, 300>>, <<0, 40>>, <<400, 1000>>}

ShortBlocks ==
    {Block(Alt(p, ShortLen), ir, ol, Neg(ol)) :
        p \in ShortPairs,
        ir \in {Alt(<<300, -40>>, ShortLen)},
        ol \in {Rep(0, ShortLen), Rep(700, ShortLen)}}

\* a head of loud or isolated quiet samples, then a run of 0.001
RunBlocks ==
    {<<>> \o Rep(1, SILENT_THRESHOLD_COUNT),
     <<>> \o Rep(1, SILENT_THRESHOLD_COUNT + 1),
     <<500, 500, -500>> \o Rep(1, MaxRun),
     <<500, 500, 500>> \o Rep(1, MaxRun),
     <<1, 500>> \o Rep(1, SILENT_THRESHOLD_COUNT + 1)}

LongBlocks ==
    {Block(b, Rep(500, Len(b)), b, b) : b \in RunBlocks}

SeqBlocks  == ShortBlocks \cup LongBlocks
ConcBlocks == {Block(<<500, -500>>, <<1, 100>>, <<0, 0>>, <<0, 0>>)}

(***************************************************************************)
(* The host's and the editor's calls on the store                          *)
(***************************************************************************)
Call(op, index, val, ret) == [op |-> op, index |-> index, val |-> val, ret |-> ret]

CellOf(index) ==
    CASE index = 0 -> "clamp_threshold"
      [] index = 1 -> "lose_precision"
      [] index = 2 -> "mix"
      [] index = 3 -> "gain"

\* what a store of `val` through index `index` is expected to leave in the cell
Stored(index, val) == IF index = 3 THEN FMul(val, to_linear(2400)) + Unit ELSE val

Init ==
    /\ params = DefaultParams
    /\ written = DefaultParams
    /\ call = Call("new", 0, 0, 0)
    /\ pc = "idle"
    /\ in_buf_l = <<>> /\ in_buf_r = <<>> /\ out_buf_l = <<>> /\ out_buf_r = <<>>
    /\ clamp_range = 0 /\ lose_precision = 0 /\ mix_level = 0 /\ gidx = 0
    /\ reads = [c \in Cells |-> {}]
    /\ buffer = Block(<<>>, <<>>, <<>>, <<>>)
    /\ editor = [is_open |-> FALSE, window_handle |-> None]
    /\ windows = {}

\* host automation: set_parameter(index, val)
SetParameter(index, val) ==
    /\ params' = set_parameter(params, index, val)
    /\ written' = IF index \in 0..3
                  THEN [written EXCEPT ![CellOf(index)] = Stored(index, val)]
                  ELSE written
    /\ call' = Call("set_parameter", index, val, 0)
    /\ UNCHANGED <<shell, audio>>

\* the editor's per-frame closure: a changed widget stores its value in the cell
EditorWrite(cell, val) ==
    /\ params' = [params EXCEPT ![cell] = val]
    /\ written' = [written EXCEPT ![cell] = val]
    /\ call' = Call("editor", cell, val, 0)
    /\ UNCHANGED <<shell, audio>>

EditorUpdate ==
    \/ \E v \in EditorClampVals : EditorWrite("clamp_threshold", v)
    \/ \E b \in BOOLEAN : EditorWrite("lose_precision", IF b THEN Unit ELSE 0)
    \/ \E v \in EditorMixVals : EditorWrite("mix", v)
    \/ \E v \in EditorGainVals : EditorWrite("gain", v)

\* host queries
GetParameter(index) ==
    /\ call' = Call("get_parameter", index, 0, get_parameter(params, index))
    /\ UNCHANGED <<shell, store, audio>>

GetParameterText(index) ==
    /\ call' = Call("get_parameter_text", index, 0, get_parameter_text(params, index))
    /\ UNCHANGED <<shell, store, audio>>

GetParameterName(index) ==
    /\ call' = Call("get_parameter_name", index, 0, get_parameter_name(index))
    /\ UNCHANGED <<shell, store, audio>>

(***************************************************************************)
(* process.rs: process, one action per atomic access to the store and per  *)
(* stage in between                                                        *)
(***************************************************************************)
\* an atomic load of a cell by the audio thread, and its record
Load(cell) == params[cell]
Noted(cell) == [reads EXCEPT ![cell] = @ \cup {<<Load(cell), written[cell]>>}]

\* the host calls process with the block blk; the call record notes in `val`
\* whether the call before this one was a process call too, on a block whose
\* left output buffer ended with a below-threshold sample
BeginProcess(blk) ==
    /\ pc = "idle"
    /\ in_buf_l' = blk.in_l /\ in_buf_r' = blk.in_r
    /\ out_buf_l' = blk.out_l /\ out_buf_r' = blk.out_r
    /\ pc' = "get_clamp_range"
    /\ reads' = [c \in Cells |-> {}]
    /\ call' = Call("process", 0, IF call.op = "process" THEN call.ret ELSE 0, 0)
    /\ buffer' = blk
    /\ UNCHANGED <<editor, windows, store, locals>>

\* GetClampRange that stores a threshold of 0 back as the slider's minimum
GetClampRangeStoring ==
    /\ pc = "get_clamp_range"
    /\ clamp_range' = IF Load("clamp_threshold") = 0 THEN 10 ELSE Load("clamp_threshold")
    /\ params' = [params EXCEPT !.clamp_threshold = IF @ = 0 THEN 10 ELSE @]
    /\ reads' = Noted("clamp_threshold")
    /\ pc' = "get_lose_precision"
    /\ UNCHANGED <<shell, written, call, buffers, lose_precision, mix_level, gidx>>

\* let clamp_range = params.clamp_threshold.get();
GetClampRange ==
    /\ pc = "get_clamp_range"
    /\ clamp_range' = Load("clamp_threshold")
    /\ reads' = Noted("clamp_threshold")
    /\ pc' = "get_lose_precision"
    /\ UNCHANGED <<shell, store, call, buffers, lose_precision, mix_level, gidx>>

\* let lose_precision = params.lose_precision.get();
GetLosePrecision ==
    /\ pc = "get_lose_precision"
    /\ lose_precision' = Load("lose_precision")
    /\ reads' = Noted("lose_precision")
    /\ pc' = "get_mix_level"
    /\ UNCHANGED <<shell, store, call, buffers, clamp_range, mix_level, gidx>>

\* let mix_level = params.mix.get();
GetMixLevel ==
    /\ pc = "get_mix_level"
    /\ mix_level' = Load("mix")
    /\ reads' = Noted("mix")
    /\ pc' = "remove_silence"
    /\ UNCHANGED <<shell, store, call, buffers, clamp_range, lose_precision, gidx>>

\* remove_silence((out_buf_l, out_buf_r));
RemoveSilenceStep ==
    /\ pc = "remove_silence"
    /\ LET gated == remove_silence(out_buf_l, out_buf_r)
       IN  out_buf_l' = gated[1] /\ out_buf_r' = gated[2]
    /\ pc' = "clamp"
    /\ UNCHANGED <<shell, store, call, in_buf_l, in_buf_r, locals, reads>>

\* the two clamp loops; the call unwinds when clamp's assertion fails or an
\* input index is outside the output slice
ClampStep ==
    /\ pc = "clamp"
    /\ IF \/ Len(in_buf_l) + Len(in_buf_r) > 0 /\ ClampPanics(-clamp_range, clamp_range)
          \/ Len(in_buf_l) > Len(out_buf_l)
          \/ Len(in_buf_r) > Len(out_buf_r)
       THEN /\ pc' = "panicked"
            /\ UNCHANGED <<out_buf_l, out_buf_r, gidx>>
       ELSE /\ out_buf_l' = ClampChannel(in_buf_l, out_buf_l, clamp_range)
            /\ out_buf_r' = ClampChannel(in_buf_r, out_buf_r, clamp_range)
            /\ gidx' = 1
            /\ pc' = IF Len(out_buf_l) + Len(out_buf_r) = 0
                     THEN "lose_precision" ELSE "gain"
    /\ UNCHANGED <<shell, store, call, in_buf_l, in_buf_r, clamp_range, lose_precision,
                   mix_level, reads>>

\* GainStep whose second loop leaves the right channel as it is
GainStepLeftOnly ==
    /\ pc = "gain"
    /\ IF gidx <= Len(out_buf_l)
       THEN /\ out_buf_l' = [out_buf_l EXCEPT ![gidx] = FMul(@, Load("gain"))]
            /\ UNCHANGED out_buf_r
       ELSE UNCHANGED <<out_buf_l, out_buf_r>>
    /\ reads' = Noted("gain")
    /\ gidx' = gidx + 1
    /\ pc' = IF gidx = Len(out_buf_l) + Len(out_buf_r) THEN "lose_precision" ELSE "gain"
    /\ UNCHANGED <<shell, store, call, in_buf_l, in_buf_r, clamp_range, lose_precision,
                   mix_level>>

\* one iteration of the gain loops: *sample *= params.gain.get();
GainStep ==
    /\ pc = "gain"
    /\ IF gidx <= Len(out_buf_l)
       THEN /\ out_buf_l' = [out_buf_l EXCEPT ![gidx] = FMul(@, Load("gain"))]
            /\ UNCHANGED out_buf_r
       ELSE /\ out_buf_r' = [out_buf_r EXCEPT ![gidx - Len(out_buf_l)] =
                                 FMul(@, Load("gain"))]
            /\ UNCHANGED out_buf_l
    /\ reads' = Noted("gain")
    /\ gidx' = gidx + 1
    /\ pc' = IF gidx = Len(out_buf_l) + Len(out_buf_r) THEN "lose_precision" ELSE "gain"
    /\ UNCHANGED <<shell, store, call, in_buf_l, in_buf_r, clamp_range, lose_precision,
                   mix_level>>

\* LosePrecisionStep with the toggle tested by >= 0.5
LosePrecisionStepGe ==
    /\ pc = "lose_precision"
    /\ IF 2 * lose_precision >= Unit
       THEN /\ out_buf_l' = LosePrecisionChannel(out_buf_l)
            /\ out_buf_r' = LosePrecisionChannel(out_buf_r)
       ELSE UNCHANGED <<out_buf_l, out_buf_r>>
    /\ pc' = "mix"
    /\ UNCHANGED <<shell, store, call, in_buf_l, in_buf_r, locals, reads>>

\* if lose_precision > 0.5 { the two lose-precision loops }
LosePrecisionStep ==
    /\ pc = "lose_precision"
    /\ IF 2 * lose_precision > Unit
       THEN /\ out_buf_l' = LosePrecisionChannel(out_buf_l)
            /\ out_buf_r' = LosePrecisionChannel(out_buf_r)
       ELSE UNCHANGED <<out_buf_l, out_buf_r>>
    /\ pc' = "mix"
    /\ UNCHANGED <<shell, store, call, in_buf_l, in_buf_r, locals, reads>>

\* mix((in_buf_l, in_buf_r), (out_buf_l, out_buf_r), mix_level);
MixStep ==
    /\ pc = "mix"
    /\ LET mixed == mix(in_buf_l, in_buf_r, out_buf_l, out_buf_r, mix_level)
       IN  out_buf_l' = mixed[1] /\ out_buf_r' = mixed[2]
    /\ pc' = "done"
    /\ UNCHANGED <<shell, store, call, in_buf_l, in_buf_r, locals, reads>>

\* process has returned and the host takes the block back; the call record
\* notes in `ret` whether the left output buffer had been handed in with a
\* below-threshold last sample
ProcessReturn ==
    /\ pc = "done"
    /\ pc' = "idle"
    /\ in_buf_l' = <<>> /\ in_buf_r' = <<>> /\ out_buf_l' = <<>> /\ out_buf_r' = <<>>
    /\ clamp_range' = 0 /\ lose_precision' = 0 /\ mix_level' = 0 /\ gidx' = 0
    /\ reads' = [c \in Cells |-> {}]
    /\ buffer' = Block(<<>>, <<>>, <<>>, <<>>)
    /\ call' = Call("process", 0, 0,
                    IF /\ Len(buffer.out_l) > 0
                       /\ buffer.out_l[Len(buffer.out_l)] < SILENT_THRESHOLD_DB
                    THEN 1 ELSE 0)
    /\ UNCHANGED <<editor, windows, store>>

ProcessStep ==
    \/ GetClampRange
    \/ GetLosePrecision
    \/ GetMixLevel
    \/ RemoveSilenceStep
    \/ ClampStep
    \/ GainStep
    \/ LosePrecisionStep
    \/ MixStep
    \/ ProcessReturn

(***************************************************************************)
(* Spec: the host's view, one call at a time.  The store is written and    *)
(* queried between process calls.                                          *)
(***************************************************************************)
HostProcess == \E blk \in SeqBlocks : BeginProcess(blk)
HostSet     == pc = "idle" /\ \E i \in HostIdx, v \in HostVals : SetParameter(i, v)
HostGet     == pc = "idle" /\ \E i \in HostIdx : GetParameter(i)
HostText    == pc = "idle" /\ \E i \in HostIdx : GetParameterText(i)
HostName    == pc = "idle" /\ \E i \in HostIdx : GetParameterName(i)
EditorFrame == pc = "idle" /\ EditorUpdate

Next ==
    \/ HostProcess
    \/ ProcessStep
    \/ HostSet
    \/ HostGet
    \/ HostText
    \/ HostName
    \/ EditorFrame

Spec == Init /\ [][Next]_vars

(***************************************************************************)
(* SpecConc: the audio thread inside process while the host and the editor *)
(* write the store from another thread.                                    *)
(***************************************************************************)
ConcVals == {0, 1000}

ConcProcess == \E blk \in ConcBlocks : BeginProcess(blk)
ConcSet     == \E i \in 0..3, v \in ConcVals : SetParameter(i, v)
ConcEditor  == \E v \in EditorGainVals \cap {to_linear(2453)} : EditorWrite("gain", v)

NextConc ==
    \/ ConcProcess
    \/ ProcessStep
    \/ ConcSet
    \/ ConcEditor

SpecConc == Init /\ [][NextConc]_vars

(***************************************************************************)
(* SpecParam: one set_parameter on a fresh store, over every normalized    *)
(* value, followed by the host's queries.                                  *)
(***************************************************************************)
ParamSet  == call.op = "new" /\ \E i \in HostIdx, v \in 0..Unit : SetParameter(i, v)
ParamGet  == call.op = "set_parameter" /\ \E i \in HostIdx : GetParameter(i)
ParamText == call.op = "set_parameter" /\ \E i \in HostIdx : GetParameterText(i)
ParamName == call.op = "set_parameter" /\ \E i \in HostIdx : GetParameterName(i)

NextParam ==
    \/ ParamSet
    \/ ParamGet
    \/ ParamText
    \/ ParamName

SpecParam == Init /\ [][NextParam]_vars

(***************************************************************************)
(* Properties                                                              *)
(***************************************************************************)
InRange(index) == index \in 0..(PARAM_NUM - 1)

\* C1 (SpecConc): whatever the interleaving of set_parameter calls and editor
\* writes with the audio thread, every cell holds its default or the value its
\* most recent writer stored, a write through one index leaves the other
\* cells alone, and every value the audio thread loads from a cell is that
\* cell's default or last stored value.
C1_ReadsSeeLastWrite ==
    /\ \A c \in Cells : params[c] = written[c]
    /\ \A c \in Cells : \A r \in reads[c] : r[1] = r[2]

\* the audio thread has loaded, in the middle of a block, a gain that a
\* concurrent set_parameter(3, 1.0) stored
C1_Witness ==
    /\ pc = "gain" /\ gidx > 1
    /\ <<Stored(3, Unit), Stored(3, Unit)>> \in reads["gain"]
    /\ params.mix = 0

\* C2 (SpecParam): for every index 0..3 and every normalized x in [0,1],
\* get_parameter(i) after set_parameter(i, x) is x to within one unit in the
\* last place; index 3 goes through gain = x*linear(24dB) + 1.0 and back.
C2_RoundTrip ==
    (call.op = "set_parameter" /\ InRange(call.index))
        => /\ Abs(get_parameter(params, call.index) - call.val) <= 1
           /\ call.index = 3 => params.gain = FMul(call.val, to_linear(2400)) + Unit

\* set_parameter(3, 0.5) has stored a gain of 8.925
C2_Witness ==
    /\ call.op = "set_parameter" /\ call.index = 3 /\ 2 * call.val = Unit
    /\ params.gain = 8925

\* C3 (Spec): for an index outside 0..3, get_parameter returns 0.0,
\* get_parameter_text and get_parameter_name return the empty string, and
\* set_parameter leaves the four cells as they were.
C3_OutOfRangeIndex ==
    (/\ call.op \in {"get_parameter", "get_parameter_text", "get_parameter_name",
                     "set_parameter"}
     /\ ~InRange(call.index)) =>
        /\ call.op = "get_parameter" => call.ret = 0
        /\ call.op = "get_parameter_text" => call.ret = <<>>
        /\ call.op = "get_parameter_name" => call.ret = ""
        /\ call.op = "set_parameter" => params = written

\* set_parameter(4, 1.0) was called on a store holding non-default values
C3_Witness ==
    /\ call.op = "set_parameter" /\ call.index = PARAM_NUM /\ call.val = Unit
    /\ \A c \in Cells : params[c] # DefaultParams[c]

\* C4 (Spec): no step of a process call writes the store: from the call to
\* its return the four cells keep their values.
C4_ProcessNeverWrites ==
    [][(pc # "idle" \/ pc' # "idle") => params' = params]_vars

\* a process call has run to its end on a store holding non-default values
C4_Witness ==
    /\ pc = "done"
    /\ \A c \in Cells : params[c] # DefaultParams[c]

\* C5 (SpecConc): within one process call every parameter is loaded with one
\* value only, so every sample of the block is processed with the same
\* value of it, whatever set_parameter calls interleave with the block.
C5_OneValuePerBlock ==
    pc = "done" => \A c \in Cells : Cardinality({r[1] : r \in reads[c]}) <= 1

\* C6 (Spec): for a threshold t > 0, every sample c the clamp loops write has
\* |c| <= t, and c is the input sample whenever that has |s| <= t.
JustClamped == pc = "gain" /\ gidx = 1

ClampedWithin(in, out, t) ==
    \A i \in 1..Len(in) :
        /\ Abs(out[i]) <= t
        /\ Abs(in[i]) <= t => out[i] = in[i]

C6_ClampStage ==
    (JustClamped /\ clamp_range > 0)
        => /\ ClampedWithin(in_buf_l, out_buf_l, clamp_range)
           /\ ClampedWithin(in_buf_r, out_buf_r, clamp_range)

\* the clamp loops have clipped a negative sample and kept a sample at the
\* threshold
C6_Witness ==
    /\ JustClamped /\ clamp_range > 0
    /\ \E i \in 1..Len(in_buf_l) : in_buf_l[i] < -clamp_range /\ out_buf_l[i] = -clamp_range
    /\ \E i \in 1..Len(in_buf_l) : in_buf_l[i] = clamp_range /\ out_buf_l[i] = in_buf_l[i]

\* a..b is a maximal run of samples below the silence threshold
IsRun(buf, a, b) ==
    /\ a <= b
    /\ \A i \in a..b : buf[i] < SILENT_THRESHOLD_DB
    /\ a = 1 \/ buf[a - 1] >= SILENT_THRESHOLD_DB
    /\ b = Len(buf) \/ buf[b + 1] >= SILENT_THRESHOLD_DB

Runs(buf) == {r \in (1..Len(buf)) \X (1..Len(buf)) : IsRun(buf, r[1], r[2])}
RunLen(r) == r[2] - r[1] + 1

\* C7 (Spec): remove_silence on a channel zeroes a run of at least 33
\* below-threshold samples from its 33rd sample on and leaves its first 32
\* samples as they were; a channel whose run is exactly 32 samples long is
\* left entirely unchanged.
GatedAsClaimed(before, after) ==
    /\ \A r \in Runs(before) :
          RunLen(r) > SILENT_THRESHOLD_COUNT =>
              /\ \A i \in r[1]..(r[1] + SILENT_THRESHOLD_COUNT - 1) : after[i] = before[i]
              /\ \A i \in (r[1] + SILENT_THRESHOLD_COUNT)..r[2] : after[i] = 0
    /\ ( /\ \E r \in Runs(before) : RunLen(r) = SILENT_THRESHOLD_COUNT
         /\ \A r \in Runs(before) : RunLen(r) <= SILENT_THRESHOLD_COUNT )
       => after = before

C7_GateZeroesFrom33rd ==
    [][(pc = "remove_silence" /\ pc' = "clamp")
          => /\ GatedAsClaimed(out_buf_l, out_buf_l')
             /\ GatedAsClaimed(out_buf_r, out_buf_r')]_vars

\* C8 (Spec): with gain 1.0, lose_precision off and mix 1.0, the block process
\* hands back for an input channel ending in a run of more than 32
\* below-threshold samples has the samples before the run clipped to the
\* threshold and zeros from the run's 33rd sample on.
C8_GateVisibleInOutput ==
    ( /\ pc = "done"
      /\ \A r \in reads["gain"] : r[1] = Unit
      /\ 2 * lose_precision <= Unit
      /\ mix_level = Unit )
    => \A r \in Runs(in_buf_l) :
          (r[2] = Len(in_buf_l) /\ RunLen(r) > SILENT_THRESHOLD_COUNT) =>
              /\ \A i \in 1..(r[1] - 1) :
                    out_buf_l[i] = Clamp(in_buf_l[i], -clamp_range, clamp_range)
              /\ \A i \in (r[1] + SILENT_THRESHOLD_COUNT)..r[2] : out_buf_l[i] = 0

\* C9 (Spec): the mix stage hands back the wet samples when mix is 1.0 and the
\* input samples, exactly, when mix is 0.0, whatever the other parameters;
\* no stage before it changes the input samples.
C9_MixEnds ==
    [][ /\ (pc = "mix" /\ pc' = "done" /\ mix_level = Unit)
            => (out_buf_l' = out_buf_l /\ out_buf_r' = out_buf_r)
        /\ (pc = "mix" /\ pc' = "done" /\ mix_level = 0)
            => (out_buf_l' = in_buf_l /\ out_buf_r' = in_buf_r)
        /\ (pc \notin {"idle", "done"})
            => (in_buf_l' = in_buf_l /\ in_buf_r' = in_buf_r) ]_vars

\* with mix 0.0 and a threshold of 0 the block handed back is the input, not
\* the all-zero wet signal
C9_Witness ==
    /\ pc = "done" /\ mix_level = 0 /\ clamp_range = 0
    /\ out_buf_l = in_buf_l
    /\ \E i \in 1..Len(in_buf_l) : in_buf_l[i] # 0

\* C10 (Spec): with lose_precision <= 0.5 the precision stage changes no
\* sample; with lose_precision > 0.5 every sample it writes is k/15 for an
\* integer k of the signed 8-bit range, and with mix 1.0 so is every sample
\* of the block handed back.
OnGrid(buf) ==
    \A i \in 1..Len(buf) : \E k \in -128..127 : buf[i] = FDiv(k * Unit, 15 * Unit)

LIB_SILENT_THRESHOLD_COUNT == 128

\* lib.rs set_parameter: three cells
lib_set_parameter(p, index, val) ==
    CASE index = 0 -> [p EXCEPT !.clamp_threshold = val]
      [] index = 1 -> [p EXCEPT !.lose_precision = val]
      [] index = 2 -> [p EXCEPT !.mix = val]
      [] OTHER     -> p

\* one channel loop of lib.rs remove_silence, from sample i on: the counter
\* is set back to 0 at the end of every iteration that does not break
RECURSIVE LibRemoveSilenceFrom(_, _, _)
LibRemoveSilenceFrom(buf, i, counter) ==
    IF i > Len(buf) THEN buf
    ELSE IF buf[i] < SILENT_THRESHOLD_DB /\ counter + 1 > LIB_SILENT_THRESHOLD_COUNT
         THEN [buf EXCEPT ![i] = 0]
         ELSE LibRemoveSilenceFrom(buf, i + 1, 0)

lib_remove_silence(out_l, out_r) ==
    <<LibRemoveSilenceFrom(out_l, 1, 0), LibRemoveSilenceFrom(out_r, 1, 0)>>

\* get_loudest_sample: starts from list[0] and keeps the largest magnitude
RECURSIVE LoudestFrom(_, _, _)
LoudestFrom(list, i, max_number) ==
    IF i > Len(list) THEN max_number
    ELSE LoudestFrom(list, i + 1,
                     IF Abs(list[i]) > max_number THEN Abs(list[i]) ELSE max_number)

get_loudest_sample(list) == LoudestFrom(list, 1, list[1])

\* to_bits() & 0xffff0000 keeps the sign, the exponent and the top seven
\* bits of the mantissa: the magnitude is truncated to eight significant
\* binary digits.  MaskShift is the k with 128 <= |s| * 2^k < 256.
RECURSIVE MaskShift(_, _)
MaskShift(n, k) == IF n * 2 ^ k >= 128 * Unit THEN k ELSE MaskShift(n, k + 1)

MaskBits(s) ==
    IF s = 0 \/ ~IsFinite(s) THEN s
    ELSE LET n == Abs(s)
             k == MaskShift(n, 0)
         IN  Sign(s) * RoundDiv(((n * 2 ^ k) \div Unit) * Unit, 2 ^ k)

LibLosePrecisionChannel(out) == [i \in 1..Len(out) |-> MaskBits(out[i])]

\* *sample *= diff
LibGainChannel(out, diff) == [i \in 1..Len(out) |-> FMul(out[i], diff)]

\* the AudioBuffers the host hands to Plugin::process: nominal inputs that
\* are silent or carry the signal, outputs that carry the signal or are empty
LibBlocks ==
    {Block(Alt(pl, ShortLen), Alt(pr, ShortLen), Alt(po, ShortLen), Neg(Alt(po, ShortLen))) :
        pl \in {<<0, 0>>, <<400, -1000>>, <<0, 300>>},
        pr \in {<<0, 0>>, <<300, -40>>},
        po \in {<<0, 0>>, <<700, 5>>}}

\* host automation through lib.rs set_parameter
LibSetParameter(index, val) ==
    /\ params' = lib_set_parameter(params, index, val)
    /\ written' = IF index \in 0..2
                  THEN [written EXCEPT ![CellOf(index)] = val]
                  ELSE written
    /\ call' = Call("set_parameter", index, val, 0)
    /\ UNCHANGED <<shell, audio>>

\* the host calls Plugin::process(buffer); buffer.split()
LibBegin(blk) ==
    /\ pc = "idle"
    /\ buffer' = blk
    /\ out_buf_l' = blk.out_l /\ out_buf_r' = blk.out_r
    /\ in_buf_l' = <<>> /\ in_buf_r' = <<>>
    /\ pc' = "lib_snapshot"
    /\ call' = Call("lib_process", 0, 0, 0)
    /\ UNCHANGED <<store, locals, reads, editor, windows>>

\* let mut in_buf_l = (*out_buf.get(0)).to_vec(); and the same for the right
LibSnapshot ==
    /\ pc = "lib_snapshot"
    /\ in_buf_l' = out_buf_l /\ in_buf_r' = out_buf_r
    /\ pc' = "lib_select"
    /\ UNCHANGED <<shell, store, call, out_buf_l, out_buf_r, locals, reads>>

\* the loop over in_buf.get(0): a non-zero sample of the left nominal input
\* replaces both copies by the nominal input
LibSelectInput ==
    /\ pc = "lib_select"
    /\ IF \E i \in DOMAIN buffer.in_l : buffer.in_l[i] # 0
       THEN in_buf_l' = buffer.in_l /\ in_buf_r' = buffer.in_r
       ELSE UNCHANGED <<in_buf_l, in_buf_r>>
    /\ pc' = "lib_params"
    /\ UNCHANGED <<shell, store, call, out_buf_l, out_buf_r, locals, reads>>

\* the three loads of the parameters
LibGetParams ==
    /\ pc = "lib_params"
    /\ clamp_range' = Load("clamp_threshold")
    /\ lose_precision' = Load("lose_precision")
    /\ mix_level' = Load("mix")
    /\ pc' = "lib_remove_silence"
    /\ UNCHANGED <<shell, store, call, buffers, gidx, reads>>

LibRemoveSilence ==
    /\ pc = "lib_remove_silence"
    /\ LET gated == lib_remove_silence(out_buf_l, out_buf_r)
       IN  out_buf_l' = gated[1] /\ out_buf_r' = gated[2]
    /\ pc' = "lib_clamp"
    /\ UNCHANGED <<shell, store, call, in_buf_l, in_buf_r, locals, reads>>

LibClamp ==
    /\ pc = "lib_clamp"
    /\ IF \/ Len(in_buf_l) + Len(in_buf_r) > 0 /\ ClampPanics(-clamp_range, clamp_range)
          \/ Len(in_buf_l) > Len(out_buf_l)
          \/ Len(in_buf_r) > Len(out_buf_r)
       THEN /\ pc' = "panicked"
            /\ UNCHANGED <<out_buf_l, out_buf_r>>
       ELSE /\ out_buf_l' = ClampChannel(in_buf_l, out_buf_l, clamp_range)
            /\ out_buf_r' = ClampChannel(in_buf_r, out_buf_r, clamp_range)
            /\ pc' = "lib_lose_precision"
    /\ UNCHANGED <<shell, store, call, in_buf_l, in_buf_r, locals, reads>>

LibLosePrecision ==
    /\ pc = "lib_lose_precision"
    /\ IF 2 * lose_precision > Unit
       THEN /\ out_buf_l' = LibLosePrecisionChannel(out_buf_l)
            /\ out_buf_r' = LibLosePrecisionChannel(out_buf_r)
       ELSE UNCHANGED <<out_buf_l, out_buf_r>>
    /\ pc' = "lib_gain"
    /\ UNCHANGED <<shell, store, call, in_buf_l, in_buf_r, locals, reads>>

\* diff = get_loudest_sample(&in_buf) / clamp_range, then the two gain
\* loops; get_loudest_sample indexes list[0] and unwinds on an empty list
LibGain ==
    /\ pc = "lib_gain"
    /\ IF Len(in_buf_l) = 0 \/ Len(in_buf_r) = 0
       THEN /\ pc' = "panicked"
            /\ UNCHANGED <<out_buf_l, out_buf_r>>
       ELSE /\ out_buf_l' = LibGainChannel(out_buf_l,
                                FDiv(get_loudest_sample(in_buf_l), clamp_range))
            /\ out_buf_r' = LibGainChannel(out_buf_r,
                                FDiv(get_loudest_sample(in_buf_r), clamp_range))
            /\ pc' = "lib_mix"
    /\ UNCHANGED <<shell, store, call, in_buf_l, in_buf_r, locals, reads>>

\* LibMix with the dry signal read from the output buffer itself
LibMixAliased ==
    /\ pc = "lib_mix"
    /\ LET mixed == mix(out_buf_l, out_buf_r, out_buf_l, out_buf_r, mix_level)
       IN  out_buf_l' = mixed[1] /\ out_buf_r' = mixed[2]
    /\ pc' = "lib_done"
    /\ UNCHANGED <<shell, store, call, in_buf_l, in_buf_r, locals, reads>>

\* mix((in_buf_l, in_buf_r), (out_buf_l, out_buf_r), mix_level);
LibMix ==
    /\ pc = "lib_mix"
    /\ LET mixed == mix(in_buf_l, in_buf_r, out_buf_l, out_buf_r, mix_level)
       IN  out_buf_l' = mixed[1] /\ out_buf_r' = mixed[2]
    /\ pc' = "lib_done"
    /\ UNCHANGED <<shell, store, call, in_buf_l, in_buf_r, locals, reads>>

\* Plugin::process has returned and the host takes the buffer back
LibReturn ==
    /\ pc = "lib_done"
    /\ pc' = "idle"
    /\ buffer' = Block(<<>>, <<>>, <<>>, <<>>)
    /\ in_buf_l' = <<>> /\ in_buf_r' = <<>> /\ out_buf_l' = <<>> /\ out_buf_r' = <<>>
    /\ clamp_range' = 0 /\ lose_precision' = 0 /\ mix_level' = 0
    /\ UNCHANGED <<store, call, gidx, reads, editor, windows>>

LibStep ==
    \/ LibSnapshot
    \/ LibSelectInput
    \/ LibGetParams
    \/ LibRemoveSilence
    \/ LibClamp
    \/ LibLosePrecision
    \/ LibGain
    \/ LibMix
    \/ LibReturn

(***************************************************************************)
(* SpecLib: the host drives the plugin shell, one call at a time.          *)
(***************************************************************************)
LibProcess == \E blk \in LibBlocks : LibBegin(blk)
LibSet     == pc = "idle" /\ \E i \in HostIdx, v \in HostVals : LibSetParameter(i, v)

NextLib == LibProcess \/ LibStep \/ LibSet

SpecLib == Init /\ [][NextLib]_vars

\* the input of the running Plugin::process call has been chosen
InputSelected ==
    pc \in {"lib_params", "lib_remove_silence", "lib_clamp", "lib_lose_precision",
            "lib_gain", "lib_mix", "lib_done"}

AllZero(buf) == \A i \in DOMAIN buf : buf[i] = 0

(***************************************************************************)
(* ui.rs: PluginEditor, the editor's lifecycle.  The call record of open   *)
(* notes in `val` whether the call before it was close; that of close      *)
(* notes whether the editor was closed already.                            *)
(***************************************************************************)
\* the window EguiWindow::open_parented creates
NewWindow == CHOOSE w \in WindowIds \ windows : \A v \in WindowIds \ windows : w <= v

\* open without the test of is_open
EditorOpenNoGuard ==
    /\ WindowIds \ windows # {}
    /\ editor' = [is_open |-> TRUE, window_handle |-> NewWindow]
    /\ windows' = windows \cup {NewWindow}
    /\ call' = Call("open", 0, IF call.op = "close" THEN 1 ELSE 0, TRUE)
    /\ UNCHANGED <<buffer, store, audio>>

\* Editor::open
EditorOpen ==
    IF editor.is_open
    THEN /\ call' = Call("open", 0, IF call.op = "close" THEN 1 ELSE 0, FALSE)
         /\ UNCHANGED <<shell, store, audio>>
    ELSE /\ WindowIds \ windows # {}
         /\ editor' = [is_open |-> TRUE, window_handle |-> NewWindow]
         /\ windows' = windows \cup {NewWindow}
         /\ call' = Call("open", 0, IF call.op = "close" THEN 1 ELSE 0, TRUE)
         /\ UNCHANGED <<buffer, store, audio>>

\* Editor::close
EditorClose ==
    /\ editor' = [is_open |-> FALSE, window_handle |-> None]
    /\ windows' = IF editor.window_handle # None
                  THEN windows \ {editor.window_handle}
                  ELSE windows
    /\ call' = Call("close", 0, IF editor.is_open THEN 0 ELSE 1, 0)
    /\ UNCHANGED <<buffer, store, audio>>

\* Editor::is_open
EditorIsOpen ==
    /\ call' = Call("is_open", 0, 0, editor.is_open)
    /\ UNCHANGED <<shell, store, audio>>

\* a frame of an existing window: its update closure runs
EditorDraw == windows # {} /\ EditorUpdate

(***************************************************************************)
(* SpecEditor: the host opens, queries and closes the editor; an open      *)
(* window draws frames.                                                    *)
(***************************************************************************)
NextEditor == EditorOpen \/ EditorClose \/ EditorIsOpen \/ EditorDraw

SpecEditor == Init /\ [][NextEditor]_vars

(***************************************************************************)
(* C11..C20                                                                *)
(***************************************************************************)
\* the precision stage has just run with the toggle on
PrecisionRan == pc = "lose_precision" /\ pc' = "mix" /\ 2 * lose_precision > Unit

\* sample * 15 lies outside [-128, 127]
OutOfI8(s) == FMul(s, 15 * Unit) > 127 * Unit \/ FMul(s, 15 * Unit) < -128 * Unit

WrappedSample(s) == FDiv(Wrap8(TruncDiv(FMul(s, 15 * Unit), Unit)) * Unit, 15 * Unit)
SaturatedSample(s) == FDiv((IF s > 0 THEN 127 ELSE -128) * Unit, 15 * Unit)

\* C11 as stated: when a sample times 15 lies outside [-128, 127], precision
\* reduction leaves the value of the low eight bits of the truncated product
\* (two's-complement wrap) over 15, not the saturated -128/15 or 127/15.
C11_CastWraps ==
    [][PrecisionRan =>
         /\ \A i \in DOMAIN out_buf_l :
              OutOfI8(out_buf_l[i]) => out_buf_l'[i] = WrappedSample(out_buf_l[i])
         /\ \A i \in DOMAIN out_buf_r :
              OutOfI8(out_buf_r[i]) => out_buf_r'[i] = WrappedSample(out_buf_r[i])]_vars

\* C11 amended: when a sample times 15 lies outside [-128, 127], precision
\* reduction saturates: the sample becomes 127/15 above the range and
\* -128/15 below it.
C11_CastSaturates ==
    [][PrecisionRan =>
         /\ \A i \in DOMAIN out_buf_l :
              OutOfI8(out_buf_l[i]) => out_buf_l'[i] = SaturatedSample(out_buf_l[i])
         /\ \A i \in DOMAIN out_buf_r :
              OutOfI8(out_buf_r[i]) => out_buf_r'[i] = SaturatedSample(out_buf_r[i])]_vars

\* an input of 1.0 under threshold 1.0 and gain 16.849 (product 252.7) has
\* been reduced to 127/15
C11_Witness ==
    /\ pc = "mix" /\ 2 * lose_precision > Unit /\ clamp_range = Unit
    /\ params.gain = Unit + to_linear(2400)
    /\ \E i \in DOMAIN out_buf_l :
         in_buf_l[i] = Unit /\ out_buf_l[i] = FDiv(127 * Unit, 15 * Unit)

\* the gain path of one channel: the clamped input times the stored gain
GainPath(in, p) ==
    [i \in DOMAIN in |->
        FMul(Clamp(in[i], -p.clamp_threshold, p.clamp_threshold), p.gain)]

\* C12: with lose_precision off and mix = 1.0, every final output sample of
\* a process call equals clamp(input, -clamp_threshold, +clamp_threshold)
\* multiplied by the stored gain.
C12_GainPath ==
    (pc = "done" /\ 2 * params.lose_precision <= Unit /\ params.mix = Unit)
        => /\ out_buf_l = GainPath(in_buf_l, params)
           /\ out_buf_r = GainPath(in_buf_r, params)

\* threshold 1.0, gain linear(6 dB) = 1.995, input 0.4: the output is 0.798
C12_Witness ==
    /\ pc = "done" /\ params.lose_precision = 0 /\ params.mix = Unit
    /\ params.clamp_threshold = Unit /\ params.gain = 1995
    /\ \E i \in DOMAIN out_buf_l : in_buf_l[i] = 400 /\ out_buf_l[i] = 798

\* C13: Plugin::process takes the output buffer's contents on entry as the
\* input of both channels exactly when both channels of the nominal input
\* are entirely zero; when any sample of either nominal channel is non-zero,
\* the nominal input is used.
C13_InputSource ==
    InputSelected =>
        IF AllZero(buffer.in_l) /\ AllZero(buffer.in_r)
        THEN in_buf_l = buffer.out_l /\ in_buf_r = buffer.out_r
        ELSE in_buf_l = buffer.in_l /\ in_buf_r = buffer.in_r

AllFinite(buf) == \A i \in DOMAIN buf : IsFinite(buf[i])

\* C14: for every clamp_threshold the host can set in [0, 1], 0 included,
\* and every gain and mix set through normalized values, process on a block
\* of finite samples never panics and returns finite output samples only
\* (nothing is divided by the threshold).
C14_NoPanicAllFinite ==
    /\ pc # "panicked"
    /\ pc = "done" => AllFinite(out_buf_l) /\ AllFinite(out_buf_r)

\* process has completed a block under threshold 0 with the largest gain
C14_Witness ==
    /\ pc = "done" /\ clamp_range = 0 /\ params.clamp_threshold = 0
    /\ params.gain = Unit + to_linear(2400)
    /\ Len(out_buf_l) > 0 /\ \E i \in DOMAIN in_buf_l : in_buf_l[i] # 0

\* one channel of process as a function of the input channel and the
\* parameter values alone
PureSample(s, p) ==
    LET gained == FMul(Clamp(s, -p.clamp_threshold, p.clamp_threshold), p.gain)
        wet    == IF 2 * p.lose_precision > Unit THEN LosePrecisionSample(gained)
                                                 ELSE gained
    IN  MixSample(wet, s, p.mix)

PureChannel(in, p) == [i \in DOMAIN in |-> PureSample(in[i], p)]

\* C15: the output channels of a process call are a function of the input
\* channels and the parameter values: whatever the output buffers held on
\* entry and whatever blocks were processed before, equal inputs and equal
\* parameters give equal outputs.
C15_PureFunction ==
    pc = "done" => /\ out_buf_l = PureChannel(buffer.in_l, params)
                   /\ out_buf_r = PureChannel(buffer.in_r, params)

\* a block whose output buffers held 0.7 and -0.7 on entry has been
\* processed right after another block, and the result differs from them
C15_Witness ==
    /\ pc = "done" /\ call.val = 1
    /\ buffer.out_l = Rep(700, ShortLen) /\ buffer.in_l # buffer.out_l
    /\ out_buf_l = PureChannel(buffer.in_l, params)
    /\ out_buf_l # buffer.out_l

\* C16: remove_silence zeroes a sample only when it and at least the 32
\* samples immediately before it in the same channel are all below the
\* threshold; below-threshold samples separated by a sample at or above the
\* threshold do not add up to one run.
ZeroedAfterRun(before, after) ==
    \A i \in DOMAIN before :
        after[i] # before[i] =>
            /\ i > SILENT_THRESHOLD_COUNT
            /\ \A j \in (i - SILENT_THRESHOLD_COUNT)..i : before[j] < SILENT_THRESHOLD_DB

C16_GateCountsConsecutive ==
    [][(pc = "remove_silence" /\ pc' = "clamp") =>
          /\ ZeroedAfterRun(out_buf_l, out_buf_l')
          /\ ZeroedAfterRun(out_buf_r, out_buf_r')]_vars

\* the below-threshold samples among the first i samples of a buffer
BelowUpTo(buf, i) == Cardinality({j \in 1..i : buf[j] < SILENT_THRESHOLD_DB})

\* the gate's result computed with a count that starts at 0 with the buffer
GatedFromZero(before, after) ==
    /\ Len(after) = Len(before)
    /\ \A i \in DOMAIN before :
         after[i] = IF /\ before[i] < SILENT_THRESHOLD_DB
                       /\ BelowUpTo(before, i) > SILENT_THRESHOLD_COUNT
                    THEN 0 ELSE before[i]

\* C17: in every process call of any sequence both per-channel counters of
\* the gate start at 0, so the gate's result for a block is determined by
\* that block's own samples, and a below-threshold run that spans a block
\* boundary is counted separately in each block.
C17_CountersBlockLocal ==
    [][(pc = "remove_silence" /\ pc' = "clamp") =>
          /\ GatedFromZero(out_buf_l, out_buf_l')
          /\ GatedFromZero(out_buf_r, out_buf_r')]_vars

\* a block of 32 below-threshold samples follows a block that ended below
\* the threshold, and the gate has left it unchanged
C17_Witness ==
    /\ pc = "clamp" /\ call.val = 1
    /\ buffer.out_l = Rep(1, SILENT_THRESHOLD_COUNT)
    /\ out_buf_l = buffer.out_l

\* C18: after any sequence of host set_parameter(3, x) calls with x in
\* [0, 1] and editor gain-slider writes within [1.0, linear(24.53 dB)], the
\* stored gain is in [1.0, 1.0 + linear(24 dB)] and get_parameter(3) is a
\* normalized value in [0, 1]: both write paths stay within the one range.
C18_GainRange ==
    /\ Unit <= params.gain /\ params.gain <= Unit + to_linear(2400)
    /\ 0 <= get_parameter(params, 3) /\ get_parameter(params, 3) <= Unit

\* the editor has stored the slider's maximum over a gain the host had set
C18_Witness ==
    /\ call.op = "editor" /\ call.index = "gain" /\ call.val = to_linear(2453)
    /\ params.gain = to_linear(2453)
    /\ written.clamp_threshold = 0

\* the host has delivered the samples in the output buffer
NominalSilent == AllZero(buffer.in_l) /\ AllZero(buffer.in_r)

\* C19: in Plugin::process the dry input of the mix stage is a copy taken
\* before any stage writes to the output buffer: when the nominal input is
\* all zero, the dry signal is the output buffer's contents on entry (with
\* mix 0 and a positive threshold the call returns exactly those contents),
\* not the gated or clamped values written later.
C19_DrySnapshot ==
    /\ (InputSelected /\ NominalSilent)
          => in_buf_l = buffer.out_l /\ in_buf_r = buffer.out_r
    /\ (pc = "lib_done" /\ NominalSilent /\ mix_level = 0 /\ clamp_range > 0)
          => out_buf_l = buffer.out_l /\ out_buf_r = buffer.out_r

\* a buffer handed in with [0.7, 0.005] in its left output channel and a
\* silent nominal input has been processed at mix 0 and threshold 0.5
C19_Witness ==
    /\ pc = "lib_done" /\ NominalSilent /\ mix_level = 0 /\ clamp_range = 500
    /\ buffer.out_l = Alt(<<700, 5>>, ShortLen)
    /\ in_buf_l = buffer.out_l /\ out_buf_l = buffer.out_l

HandlePresent(e) == e.window_handle # None
\* a step that is a call of open, or of close
OpenCalled ==
    /\ call'.op = "open"
    /\ call.op = "open" => (call'.val # call.val \/ call'.ret # call.ret)
CloseCalled ==
    /\ call'.op = "close"
    /\ call.op = "close" => call'.val # call.val

\* C20: over any sequence of open and close calls, after each call is_open
\* is true exactly when window_handle is present (and exactly one window
\* exists then, none otherwise); open on an open editor returns false and
\* changes nothing; close leaves is_open false and window_handle absent,
\* also on a closed editor; open on a closed editor, after a close as well,
\* returns true.
C20_EditorLifecycle ==
    /\ editor.is_open <=> HandlePresent(editor)
    /\ [][/\ editor'.is_open <=> HandlePresent(editor')
          /\ windows' = IF editor'.is_open THEN {editor'.window_handle} ELSE {}
          /\ OpenCalled =>
                IF editor.is_open
                THEN call'.ret = FALSE /\ UNCHANGED <<editor, windows>>
                ELSE call'.ret = TRUE /\ editor'.is_open
          /\ CloseCalled => ~editor'.is_open /\ ~HandlePresent(editor')]_vars

\* open has returned true right after a close, and its window exists
C20_Witness ==
    /\ call.op = "open" /\ call.val = 1 /\ call.ret = TRUE
    /\ editor.is_open /\ windows = {editor.window_handle}
    /\ params # DefaultParams

====
